---- MODULE Spec2Model ----
(***************************************************************************)
(* Model of the PySide6 entry point main.py of the Liquid Glass component  *)
(* library: setup_opengl() and main(), one action per statement, with the  *)
(* toolkit's answers (engine defaults, file existence, number of root      *)
(* objects, event-loop result) drawn from small sets.                      *)
(***************************************************************************)
EXTENDS Integers, Sequences, FiniteSets, TLC

\* ------------------------------------------------------------------ bounds
MaxDefaultPaths == 2    \* import paths the engine already has when constructed
MaxRootObjects == 2     \* root objects one load can produce
MaxExecResult == 2      \* event-loop results range over -1..MaxExecResult
MaxSurfaces == 2        \* surfaces created during one run

\* ------------------------------------------------------- values and helpers
NoValue == <<>>
Some(v) == <<v>>
Value(o) == o[1]

AA_ShareOpenGLContexts == "AA_ShareOpenGLContexts"

\* QSurfaceFormat(): a default-constructed format, before any setter ran
QSurfaceFormat ==
    [major |-> 2, minor |-> 0, profile |-> "NoProfile", samples |-> -1, swapInterval |-> 1]

\* process-wide default format main() may find installed when it starts
InitialFormats ==
    { QSurfaceFormat,
      [major |-> 4, minor |-> 1, profile |-> "CompatibilityProfile", samples |-> 0, swapInterval |-> 0] }

setVersion(f, major, minor) == [f EXCEPT !.major = major, !.minor = minor]
setProfile(f, profile) == [f EXCEPT !.profile = profile]
setSamples(f, n) == [f EXCEPT !.samples = n]
setSwapInterval(f, n) == [f EXCEPT !.swapInterval = n]

\* directories the launcher file may live in (Path(__file__).parent.resolve())
LauncherDirs == { <<"opt", "liquidglass">>, <<"home", "demo">> }

\* pathlib's "/" operator: one more path component
Join(dir, name) == Append(dir, name)

\* QUrl.fromLocalFile(str(path))
fromLocalFile(path) == [scheme |-> "file", path |-> path]

\* import paths a freshly constructed engine carries (toolkit defaults)
ToolkitPaths == { <<"qt", "qml">>, <<"qrc", "imports">> }
BoundedSeq(S, n) == UNION { [1..k -> S] : k \in 0..n }
EngineDefaults == BoundedSeq(ToolkitPaths, MaxDefaultPaths)

ExecResults == (-1)..MaxExecResult

\* the two diagnostics: the literal text and the values interpolated into it
NotFoundMessage(path) == [text |-> "Error: Main.qml not found at ", args |-> << path >>]
LoadFailedMessage == [text |-> "Error: Failed to load QML", args |-> << >>]

IsPrefix(s, t) == Len(s) <= Len(t) /\ SubSeq(t, 1, Len(s)) = s

\* ------------------------------------------------------------------- state
VARIABLES
    pc,               \* position in main() / setup_opengl()
    launcher_dir,     \* directory containing main.py
    attributes,       \* application attributes set through QCoreApplication
    fmt,              \* local of setup_opengl
    defaultFormat,    \* QSurfaceFormat's process-wide default
    installs,         \* number of setDefaultFormat calls made so far
    app,              \* the QGuiApplication and its identity fields
    engine,           \* TRUE once the QQmlApplicationEngine is constructed
    basePaths,        \* import paths the engine had when constructed
    importPaths,      \* import paths registered on the engine, in registration order
    app_dir, qml_dir, components_dir, main_qml,   \* locals of main
    existsResult,     \* answer of main_qml.exists()
    loadCalls,        \* urls engine.load was requested with
    rootObjects,      \* number of engine.rootObjects()
    surfaces,         \* format each created surface was given
    stdout,           \* diagnostics printed by main
    execCount,        \* number of times app.exec() was entered
    loopResult,       \* value the event loop returned
    ret               \* value main() returned

vars == << pc, launcher_dir, attributes, fmt, defaultFormat, installs, app, engine,
           basePaths, importPaths, app_dir, qml_dir, components_dir, main_qml,
           existsResult, loadCalls, rootObjects, surfaces, stdout, execCount,
           loopResult, ret >>

toolkitVars == << attributes, defaultFormat, installs >>
appVars == << app >>
engineVars == << engine, basePaths, importPaths, loadCalls, rootObjects >>
pathVars == << app_dir, qml_dir, components_dir, main_qml >>
loopVars == << execCount, loopResult >>

Init ==
    /\ pc = "set_attribute"
    /\ launcher_dir \in LauncherDirs
    /\ attributes = {}
    /\ fmt = NoValue
    /\ defaultFormat \in InitialFormats
    /\ installs = 0
    /\ app = NoValue
    /\ engine = FALSE
    /\ basePaths = <<>>
    /\ importPaths = <<>>
    /\ app_dir = NoValue /\ qml_dir = NoValue
    /\ components_dir = NoValue /\ main_qml = NoValue
    /\ existsResult = NoValue
    /\ loadCalls = <<>>
    /\ rootObjects = 0
    /\ surfaces = <<>>
    /\ stdout = <<>>
    /\ execCount = 0
    /\ loopResult = NoValue
    /\ ret = NoValue

\* --------------------------------------------------------- main, lines 33-35
\* mutant: the attribute call is left out
SetAttribute_forgotten ==
    /\ pc = "set_attribute"
    /\ pc' = "fmt_construct"
    /\ UNCHANGED << launcher_dir, attributes, fmt, defaultFormat, installs, appVars,
                    engineVars, pathVars, existsResult, surfaces, stdout, loopVars, ret >>

SetAttribute ==
    /\ pc = "set_attribute"
    /\ attributes' = attributes \cup {AA_ShareOpenGLContexts}
    /\ pc' = "fmt_construct"
    /\ UNCHANGED << launcher_dir, fmt, defaultFormat, installs, appVars, engineVars,
                    pathVars, existsResult, surfaces, stdout, loopVars, ret >>

\* ------------------------------------------------- setup_opengl, lines 23-28
FmtConstruct ==
    /\ pc = "fmt_construct"
    /\ fmt' = Some(QSurfaceFormat)
    /\ pc' = "fmt_version"
    /\ UNCHANGED << launcher_dir, toolkitVars, appVars, engineVars, pathVars,
                    existsResult, surfaces, stdout, loopVars, ret >>

FmtSetVersion ==
    /\ pc = "fmt_version"
    /\ fmt' = Some(setVersion(Value(fmt), 3, 3))
    /\ pc' = "fmt_profile"
    /\ UNCHANGED << launcher_dir, toolkitVars, appVars, engineVars, pathVars,
                    existsResult, surfaces, stdout, loopVars, ret >>

FmtSetProfile ==
    /\ pc = "fmt_profile"
    /\ fmt' = Some(setProfile(Value(fmt), "CoreProfile"))
    /\ pc' = "fmt_samples"
    /\ UNCHANGED << launcher_dir, toolkitVars, appVars, engineVars, pathVars,
                    existsResult, surfaces, stdout, loopVars, ret >>

FmtSetSamples ==
    /\ pc = "fmt_samples"
    /\ fmt' = Some(setSamples(Value(fmt), 4))
    /\ pc' = "fmt_swap"
    /\ UNCHANGED << launcher_dir, toolkitVars, appVars, engineVars, pathVars,
                    existsResult, surfaces, stdout, loopVars, ret >>

FmtSetSwapInterval ==
    /\ pc = "fmt_swap"
    /\ fmt' = Some(setSwapInterval(Value(fmt), 1))
    /\ pc' = "set_default_format"
    /\ UNCHANGED << launcher_dir, toolkitVars, appVars, engineVars, pathVars,
                    existsResult, surfaces, stdout, loopVars, ret >>

\* mutant: the format is built but never installed as the default
SetDefaultFormat_dropped ==
    /\ pc = "set_default_format"
    /\ fmt' = NoValue
    /\ pc' = "app_construct"
    /\ UNCHANGED << launcher_dir, toolkitVars, appVars, engineVars, pathVars,
                    existsResult, surfaces, stdout, loopVars, ret >>

SetDefaultFormat ==
    /\ pc = "set_default_format"
    /\ defaultFormat' = Value(fmt)
    /\ installs' = installs + 1
    /\ fmt' = NoValue                     \* setup_opengl returns, its local is gone
    /\ pc' = "app_construct"
    /\ UNCHANGED << launcher_dir, attributes, appVars, engineVars, pathVars,
                    existsResult, surfaces, stdout, loopVars, ret >>

setup_opengl ==
    \/ FmtConstruct
    \/ FmtSetVersion
    \/ FmtSetProfile
    \/ FmtSetSamples
    \/ FmtSetSwapInterval
    \/ SetDefaultFormat

\* --------------------------------------------------------- main, lines 39-42
AppConstruct ==
    /\ pc = "app_construct"
    /\ app' = Some([applicationName |-> "", organizationName |-> "", organizationDomain |-> ""])
    /\ pc' = "app_name"
    /\ UNCHANGED << launcher_dir, toolkitVars, fmt, engineVars, pathVars,
                    existsResult, surfaces, stdout, loopVars, ret >>

SetApplicationName ==
    /\ pc = "app_name"
    /\ app' = Some([Value(app) EXCEPT !.applicationName = "Liquid Glass Demo"])
    /\ pc' = "app_org"
    /\ UNCHANGED << launcher_dir, toolkitVars, fmt, engineVars, pathVars,
                    existsResult, surfaces, stdout, loopVars, ret >>

SetOrganizationName ==
    /\ pc = "app_org"
    /\ app' = Some([Value(app) EXCEPT !.organizationName = "LiquidGlass"])
    /\ pc' = "app_domain"
    /\ UNCHANGED << launcher_dir, toolkitVars, fmt, engineVars, pathVars,
                    existsResult, surfaces, stdout, loopVars, ret >>

SetOrganizationDomain ==
    /\ pc = "app_domain"
    /\ app' = Some([Value(app) EXCEPT !.organizationDomain = "liquidglass.demo"])
    /\ pc' = "engine_construct"
    /\ UNCHANGED << launcher_dir, toolkitVars, fmt, engineVars, pathVars,
                    existsResult, surfaces, stdout, loopVars, ret >>

\* -------------------------------------------------------------- main, line 44
EngineConstruct ==
    /\ pc = "engine_construct"
    /\ engine' = TRUE
    /\ \E defaults \in EngineDefaults :
          /\ basePaths' = defaults
          /\ importPaths' = defaults
    /\ pc' = "app_dir"
    /\ UNCHANGED << launcher_dir, toolkitVars, fmt, appVars, loadCalls, rootObjects,
                    pathVars, existsResult, surfaces, stdout, loopVars, ret >>

\* --------------------------------------------------------- main, lines 47-49
ComputeAppDir ==
    /\ pc = "app_dir"
    /\ app_dir' = launcher_dir
    /\ pc' = "qml_dir"
    /\ UNCHANGED << launcher_dir, toolkitVars, fmt, appVars, engineVars, qml_dir,
                    components_dir, main_qml, existsResult, surfaces, stdout,
                    loopVars, ret >>

ComputeQmlDir ==
    /\ pc = "qml_dir"
    /\ qml_dir' = Join(app_dir, "qml")
    /\ pc' = "components_dir"
    /\ UNCHANGED << launcher_dir, toolkitVars, fmt, appVars, engineVars, app_dir,
                    components_dir, main_qml, existsResult, surfaces, stdout,
                    loopVars, ret >>

ComputeComponentsDir ==
    /\ pc = "components_dir"
    /\ components_dir' = Join(qml_dir, "components")
    /\ pc' = "add_qml_dir"
    /\ UNCHANGED << launcher_dir, toolkitVars, fmt, appVars, engineVars, app_dir,
                    qml_dir, main_qml, existsResult, surfaces, stdout, loopVars, ret >>

\* --------------------------------------------------------- main, lines 52-53
\* importPaths lists the registrations in the order they were made; the order
\* in which the toolkit later searches them is its own business.
addImportPath(paths, dir) == Append(paths, dir)

\* mutant: the first registration passes the components directory
AddQmlDir_components ==
    /\ pc = "add_qml_dir"
    /\ importPaths' = addImportPath(importPaths, components_dir)
    /\ pc' = "add_components_dir"
    /\ UNCHANGED << launcher_dir, toolkitVars, fmt, appVars, engine, basePaths,
                    loadCalls, rootObjects, pathVars, existsResult, surfaces,
                    stdout, loopVars, ret >>

AddQmlDir ==
    /\ pc = "add_qml_dir"
    /\ importPaths' = addImportPath(importPaths, qml_dir)
    /\ pc' = "add_components_dir"
    /\ UNCHANGED << launcher_dir, toolkitVars, fmt, appVars, engine, basePaths,
                    loadCalls, rootObjects, pathVars, existsResult, surfaces,
                    stdout, loopVars, ret >>

AddComponentsDir ==
    /\ pc = "add_components_dir"
    /\ importPaths' = addImportPath(importPaths, components_dir)
    /\ pc' = "main_qml"
    /\ UNCHANGED << launcher_dir, toolkitVars, fmt, appVars, engine, basePaths,
                    loadCalls, rootObjects, pathVars, existsResult, surfaces,
                    stdout, loopVars, ret >>

\* --------------------------------------------------------- main, lines 56-60
ComputeMainQml ==
    /\ pc = "main_qml"
    /\ main_qml' = Join(qml_dir, "Main.qml")
    /\ pc' = "check_exists"
    /\ UNCHANGED << launcher_dir, toolkitVars, fmt, appVars, engineVars, app_dir,
                    qml_dir, components_dir, existsResult, surfaces, stdout,
                    loopVars, ret >>

\* mutant: the existence test is inverted
CheckExists_inverted ==
    /\ pc = "check_exists"
    /\ \E found \in BOOLEAN :
          /\ existsResult' = Some(found)
          /\ pc' = IF found THEN "print_not_found" ELSE "load"
    /\ UNCHANGED << launcher_dir, toolkitVars, fmt, appVars, engineVars, pathVars,
                    surfaces, stdout, loopVars, ret >>

CheckExists ==
    /\ pc = "check_exists"
    /\ \E found \in BOOLEAN :
          /\ existsResult' = Some(found)
          /\ pc' = IF found THEN "load" ELSE "print_not_found"
    /\ UNCHANGED << launcher_dir, toolkitVars, fmt, appVars, engineVars, pathVars,
                    surfaces, stdout, loopVars, ret >>

PrintNotFound ==
    /\ pc = "print_not_found"
    /\ stdout' = Append(stdout, NotFoundMessage(main_qml))
    /\ pc' = "return_not_found"
    /\ UNCHANGED << launcher_dir, toolkitVars, fmt, appVars, engineVars, pathVars,
                    existsResult, surfaces, loopVars, ret >>

\* mutant: the return after the diagnostic is missing, main falls through
ReturnNotFound_fallthrough ==
    /\ pc = "return_not_found"
    /\ pc' = "load"
    /\ UNCHANGED << launcher_dir, toolkitVars, fmt, appVars, engineVars, pathVars,
                    existsResult, surfaces, stdout, loopVars, ret >>

ReturnNotFound ==
    /\ pc = "return_not_found"
    /\ ret' = Some(1)
    /\ pc' = "done"
    /\ UNCHANGED << launcher_dir, toolkitVars, fmt, appVars, engineVars, pathVars,
                    existsResult, surfaces, stdout, loopVars >>

\* --------------------------------------------------------- main, lines 62-66
\* mutant: the engine is asked to load the UI-root directory
Load_qml_dir ==
    /\ pc = "load"
    /\ loadCalls' = Append(loadCalls, fromLocalFile(qml_dir))
    /\ \E n \in 0..MaxRootObjects : rootObjects' = n
    /\ pc' = "check_root_objects"
    /\ UNCHANGED << launcher_dir, toolkitVars, fmt, appVars, engine, basePaths,
                    importPaths, pathVars, existsResult, surfaces, stdout,
                    loopVars, ret >>

Load ==
    /\ pc = "load"
    /\ loadCalls' = Append(loadCalls, fromLocalFile(main_qml))
    /\ \E n \in 0..MaxRootObjects : rootObjects' = n
    /\ pc' = "check_root_objects"
    /\ UNCHANGED << launcher_dir, toolkitVars, fmt, appVars, engine, basePaths,
                    importPaths, pathVars, existsResult, surfaces, stdout,
                    loopVars, ret >>

\* mutant: the root-object test is left out
CheckRootObjects_ignored ==
    /\ pc = "check_root_objects"
    /\ pc' = "exec"
    /\ UNCHANGED << launcher_dir, toolkitVars, fmt, appVars, engineVars, pathVars,
                    existsResult, surfaces, stdout, loopVars, ret >>

CheckRootObjects ==
    /\ pc = "check_root_objects"
    /\ pc' = IF rootObjects = 0 THEN "print_load_failed" ELSE "exec"
    /\ UNCHANGED << launcher_dir, toolkitVars, fmt, appVars, engineVars, pathVars,
                    existsResult, surfaces, stdout, loopVars, ret >>

\* mutant: the diagnostic of the other failure was copied
PrintLoadFailed_copied ==
    /\ pc = "print_load_failed"
    /\ stdout' = Append(stdout, NotFoundMessage(main_qml))
    /\ pc' = "return_load_failed"
    /\ UNCHANGED << launcher_dir, toolkitVars, fmt, appVars, engineVars, pathVars,
                    existsResult, surfaces, loopVars, ret >>

PrintLoadFailed ==
    /\ pc = "print_load_failed"
    /\ stdout' = Append(stdout, LoadFailedMessage)
    /\ pc' = "return_load_failed"
    /\ UNCHANGED << launcher_dir, toolkitVars, fmt, appVars, engineVars, pathVars,
                    existsResult, surfaces, loopVars, ret >>

\* mutant: a failed load is retried
ReturnLoadFailed_retry ==
    /\ pc = "return_load_failed"
    /\ pc' = "load"
    /\ UNCHANGED << launcher_dir, toolkitVars, fmt, appVars, engineVars, pathVars,
                    existsResult, surfaces, stdout, loopVars, ret >>

ReturnLoadFailed ==
    /\ pc = "return_load_failed"
    /\ ret' = Some(1)
    /\ pc' = "done"
    /\ UNCHANGED << launcher_dir, toolkitVars, fmt, appVars, engineVars, pathVars,
                    existsResult, surfaces, stdout, loopVars >>

\* -------------------------------------------------------------- main, line 68
ExecEnter ==
    /\ pc = "exec"
    /\ execCount' = execCount + 1
    /\ pc' = "exec_running"
    /\ UNCHANGED << launcher_dir, toolkitVars, fmt, appVars, engineVars, pathVars,
                    existsResult, surfaces, stdout, loopResult, ret >>

\* the toolkit's loop ends (last window closed, explicit quit) with some status
LoopQuit ==
    /\ pc = "exec_running"
    /\ \E status \in ExecResults : loopResult' = Some(status)
    /\ pc' = "exec_returned"
    /\ UNCHANGED << launcher_dir, toolkitVars, fmt, appVars, engineVars, pathVars,
                    existsResult, surfaces, stdout, execCount, ret >>

\* mutant: the loop result is squashed to 0 / 1
ReturnExec_normalised ==
    /\ pc = "exec_returned"
    /\ ret' = Some(IF Value(loopResult) = 0 THEN 0 ELSE 1)
    /\ pc' = "done"
    /\ UNCHANGED << launcher_dir, toolkitVars, fmt, appVars, engineVars, pathVars,
                    existsResult, surfaces, stdout, loopVars >>

ReturnExec ==
    /\ pc = "exec_returned"
    /\ ret' = Some(Value(loopResult))
    /\ pc' = "done"
    /\ UNCHANGED << launcher_dir, toolkitVars, fmt, appVars, engineVars, pathVars,
                    existsResult, surfaces, stdout, loopVars >>

\* ---------------------------------------------- rendering subsystem (toolkit)
\* A surface for the loaded UI tree is created with the default format that is
\* installed at that moment, during the load or while the event loop runs.
CreateSurface ==
    /\ pc \in {"check_root_objects", "exec", "exec_running"}
    /\ rootObjects > 0
    /\ Len(surfaces) < MaxSurfaces
    /\ surfaces' = Append(surfaces, defaultFormat)
    /\ UNCHANGED << pc, launcher_dir, toolkitVars, fmt, appVars, engineVars, pathVars,
                    existsResult, stdout, loopVars, ret >>

\* ------------------------------------------------------------ specification
main ==
    \/ SetAttribute
    \/ setup_opengl
    \/ AppConstruct
    \/ SetApplicationName
    \/ SetOrganizationName
    \/ SetOrganizationDomain
    \/ EngineConstruct
    \/ ComputeAppDir
    \/ ComputeQmlDir
    \/ ComputeComponentsDir
    \/ AddQmlDir
    \/ AddComponentsDir
    \/ ComputeMainQml
    \/ CheckExists
    \/ PrintNotFound
    \/ ReturnNotFound
    \/ Load
    \/ CheckRootObjects
    \/ PrintLoadFailed
    \/ ReturnLoadFailed
    \/ ExecEnter
    \/ ReturnExec

Next == main \/ LoopQuit \/ CreateSurface

Spec == Init /\ [][Next]_vars

\* main's own statements always run to the next one; the event loop is the
\* toolkit's and returns only at application shutdown, which may never come.
FairSpec == Spec /\ WF_vars(main)

\* ================================================================== claims
PositionsInOrder ==
    << "set_attribute", "fmt_construct", "fmt_version", "fmt_profile", "fmt_samples",
       "fmt_swap", "set_default_format", "app_construct", "app_name", "app_org",
       "app_domain", "engine_construct", "app_dir", "qml_dir", "components_dir",
       "add_qml_dir", "add_components_dir", "main_qml", "check_exists",
       "print_not_found", "return_not_found", "load", "check_root_objects",
       "print_load_failed", "return_load_failed", "exec", "exec_running",
       "exec_returned", "done" >>

Rank(p) == CHOOSE i \in 1..Len(PositionsInOrder) : PositionsInOrder[i] = p

RootResource == Join(Join(launcher_dir, "qml"), "Main.qml")
UiRoot == Join(launcher_dir, "qml")
Components == Join(Join(launcher_dir, "qml"), "components")

Missing == existsResult = Some(FALSE)
Present == existsResult = Some(TRUE)
Loaded == Len(loadCalls) > 0
LoadFailed == Present /\ Loaded /\ rootObjects = 0
LoadSucceeded == Present /\ Loaded /\ rootObjects > 0
LoopEntered == execCount > 0

TargetFormat ==
    [major |-> 3, minor |-> 3, profile |-> "CoreProfile", samples |-> 4, swapInterval |-> 1]

\* C1: when the existence check finds the root resource file missing, main()
\* returns 1 and app.exec is never entered in that run.
C1_MissingResourceExitsOne ==
    /\ [](Missing => ~LoopEntered /\ pc \notin {"exec", "exec_running", "exec_returned"})
    /\ [](Missing /\ pc = "done" => ret = Some(1))
    /\ (Missing ~> (pc = "done" /\ ret = Some(1)))

C1_Witness == Missing /\ pc = "done" /\ ret = Some(1) /\ execCount = 0

\* C2: when the file exists but the engine reports zero root objects after the
\* load request, main() returns 1 and app.exec is never entered in that run.
C2_LoadFailureExitsOne ==
    /\ [](LoadFailed => ~LoopEntered /\ pc \notin {"exec", "exec_running", "exec_returned"})
    /\ [](LoadFailed /\ pc = "done" => ret = Some(1))
    /\ (LoadFailed ~> (pc = "done" /\ ret = Some(1)))

C2_Witness == LoadFailed /\ pc = "done" /\ ret = Some(1) /\ execCount = 0

\* C3: when the file exists and the engine has at least one root object, the
\* event loop is entered exactly once and main() returns exactly the value the
\* loop returned, zero or not.
C3_ReturnsLoopResult ==
    /\ [](execCount <= 1)
    /\ (LoadSucceeded ~> execCount = 1)
    /\ [](LoadSucceeded /\ pc = "done" =>
             /\ execCount = 1
             /\ loopResult # NoValue
             /\ ret = loopResult)
    /\ (loopResult # NoValue ~> (pc = "done" /\ ret = loopResult))

C3_Witness ==
    LoadSucceeded /\ pc = "done" /\ execCount = 1 /\ loopResult # NoValue
        /\ Value(loopResult) # 0 /\ Value(loopResult) # 1 /\ ret = loopResult

\* C4: AA_ShareOpenGLContexts is set before the QGuiApplication is constructed:
\* no reachable state has the application object without the attribute.
C4_AttributeBeforeApp ==
    (app # NoValue \/ pc = "app_construct") => AA_ShareOpenGLContexts \in attributes

C4_Witness == app # NoValue /\ pc = "done" /\ AA_ShareOpenGLContexts \in attributes

\* C5: the default surface format is installed exactly once, before the
\* application is constructed, as 3.3 / core / 4 samples / swap interval 1, and
\* keeps these values from then on, so every surface created observes them.
C5_DefaultFormatFixed ==
    /\ installs <= 1
    /\ (app # NoValue \/ pc = "app_construct") =>
           /\ installs = 1
           /\ defaultFormat = TargetFormat
    /\ \A i \in 1..Len(surfaces) : surfaces[i] = TargetFormat

C5_Witness ==
    pc = "exec_running" /\ Len(surfaces) > 0 /\ installs = 1 /\ defaultFormat = TargetFormat

\* C6: whenever load is requested, the engine's import paths already hold the
\* UI-root directory followed by its components subdirectory, registered in that
\* order; main only appends to the list, exactly these two entries, each once.
C6_ImportPathsBeforeLoad ==
    /\ [](pc = "load" \/ Loaded =>
             importPaths = basePaths \o << UiRoot, Components >>)
    /\ [](Len(importPaths) <= Len(basePaths) + 2)
    /\ [][engine => (\/ importPaths' = importPaths
                     \/ /\ Len(importPaths') = Len(importPaths) + 1
                        /\ IsPrefix(importPaths, importPaths'))]_vars

C6_Witness ==
    Loaded /\ Len(basePaths) > 0 /\ importPaths = basePaths \o << UiRoot, Components >>

\* C7: every run ends in exactly one of three terminal states (exit 1 missing
\* resource, exit 1 load failure, exit with the loop result); the failure paths
\* terminate without the event loop, the success path terminates when the loop
\* returns; the steps form one linear sequence, never repeated, never backward.
EndMissing == Missing /\ ~Loaded /\ execCount = 0 /\ ret = Some(1)
EndLoadFailed == LoadFailed /\ execCount = 0 /\ ret = Some(1)
EndLoop == LoadSucceeded /\ execCount = 1 /\ loopResult # NoValue /\ ret = loopResult

C7_LinearThreeEnds ==
    /\ [](pc = "done" =>
             /\ EndMissing \/ EndLoadFailed \/ EndLoop
             /\ ~(EndMissing /\ EndLoadFailed)
             /\ ~(EndMissing /\ EndLoop)
             /\ ~(EndLoadFailed /\ EndLoop))
    /\ [](ret # NoValue <=> pc = "done")
    /\ [][pc' # pc => Rank(pc') > Rank(pc)]_vars
    /\ [][pc = "exec_running" /\ pc' # pc => loopResult' # NoValue]_vars
    /\ <>(pc = "done" \/ pc = "exec_running")
    /\ (pc = "print_not_found" ~> pc = "done")
    /\ (pc = "print_load_failed" ~> pc = "done")
    /\ (pc = "exec_returned" ~> pc = "done")

C7_Witness == pc = "done" /\ EndLoop

\* C8: a failing run prints exactly one diagnostic before returning 1; the
\* missing-resource one names the root resource path, the load-failure one does
\* not, and the two differ; a run that reaches the event loop printed nothing.
NamesPath(message, path) == \E i \in 1..Len(message.args) : message.args[i] = path

C8_Diagnostics ==
    /\ Len(stdout) <= 1
    /\ (pc \in {"return_not_found", "return_load_failed"} \/ (pc = "done" /\ ~LoopEntered))
           => Len(stdout) = 1
    /\ (Missing /\ Len(stdout) = 1) => NamesPath(stdout[1], RootResource)
    /\ (Present /\ Len(stdout) = 1) =>
           /\ ~NamesPath(stdout[1], RootResource)
           /\ stdout[1] # NotFoundMessage(RootResource)
    /\ (pc = "exec" \/ LoopEntered) => stdout = << >>

C8_Witness == pc = "done" /\ LoadFailed /\ Len(stdout) = 1

\* C9 (as stated): in every run the engine's load is requested exactly once with
\* the root resource path.
C9_LoadExactlyOnceEveryRun ==
    pc = "done" => loadCalls = << fromLocalFile(RootResource) >>

\* C9 (amended): load is never requested more than once, and in every run whose
\* existence check succeeded it is requested exactly once, with the root
\* resource path as a local-file url.
C9_LoadExactlyOnceWhenPresent ==
    /\ Len(loadCalls) <= 1
    /\ (Present /\ pc \notin {"check_exists", "load"}) =>
           loadCalls = << fromLocalFile(RootResource) >>

C9_Witness == pc = "done" /\ Present /\ loadCalls = << fromLocalFile(RootResource) >>

\* C10: load is requested at most once and only after the existence check
\* succeeded; when the file is missing it is never requested, although the
\* application, the engine and both import paths are already there; a failed
\* load is not followed by a second attempt.
C10_LoadOnlyAfterCheck ==
    /\ [](Len(loadCalls) <= 1)
    /\ [](Loaded => Present)
    /\ [](Missing =>
             /\ ~Loaded
             /\ app # NoValue
             /\ engine
             /\ importPaths = basePaths \o << UiRoot, Components >>)
    /\ [][loadCalls' # loadCalls => Present /\ loadCalls = << >>]_vars
    /\ [][LoadFailed => loadCalls' = loadCalls]_vars

C10_Witness == Missing /\ pc = "done" /\ ~Loaded /\ engine /\ app # NoValue

====
